---- MODULE Spec2Model ----
(***************************************************************************)
(* Model of the command-line scripts of the Automated Candidate Screening  *)
(* Workflow: validate_project.py (ProjectValidator), main.py (the command  *)
(* dispatcher and run_workflow), run_tests.py and final_validation.py.     *)
(* One script runs per behaviour; Init chooses which.  Everything outside  *)
(* the scripts (the file system, the interpreter, the orchestrator, the    *)
(* unittest runner, sub-processes) is an input drawn with \E at the step   *)
(* that observes it.                                                       *)
(***************************************************************************)
EXTENDS Integers, Sequences, FiniteSets, TLC

VARIABLES
    script,              \* which script the process runs
    pc,                  \* position of the single thread of control
    exitCode,            \* process exit status, NoExit while running
    sysExitCalled,       \* TRUE once sys.exit() has been called
    \* ---- validate_project.py: ProjectValidator and run_comprehensive_validation
    validation_results,  \* self.validation_results
    errors,              \* self.errors
    warnings,            \* self.warnings
    passed_tests,        \* local passed_tests of run_comprehensive_validation
    idx,                 \* number of validation_functions entries already run
    outcomes,            \* how each test_function() call ended (observer only)
    report,              \* the report dict, NoReport until built
    reportFile,          \* sequence of the contents written to validation_report.json
    \* ---- main.py
    command,             \* args.command
    connection_results,  \* dict returned by orchestrator.test_connections()
    testCalls,           \* calls of orchestrator.test_connections()
    testReturns,         \* returns of orchestrator.test_connections() (observer only)
    contCalls,           \* calls of orchestrator.run_continuous()
    contOutcome,         \* how run_continuous() ended
    rwResult,            \* what run_workflow() returned
    cmdOutcome,          \* how the command function ended
    pending,             \* exception propagating out of main()'s try body
    exitArg,             \* argument of the pending SystemExit
    errorLog,            \* logger.error calls, in order
    \* ---- run_tests.py
    wasSuccessful,       \* result.wasSuccessful() of the unittest run
    success,             \* value returned by run_tests()
    \* ---- final_validation.py
    python_results,
    n8n_results,
    doc_results,
    structure_results,
    final_report

vars == <<script, pc, exitCode, sysExitCalled,
          validation_results, errors, warnings, passed_tests, idx, outcomes,
          report, reportFile,
          command, connection_results, testCalls, testReturns, contCalls, contOutcome,
          rwResult, cmdOutcome, pending, exitArg, errorLog,
          wasSuccessful, success,
          python_results, n8n_results, doc_results, structure_results,
          final_report>>

validateVars == <<validation_results, errors, warnings, passed_tests, idx,
                  outcomes, report, reportFile>>
mainVars == <<command, connection_results, testCalls, testReturns, contCalls, contOutcome,
                  rwResult, cmdOutcome, pending, exitArg, errorLog>>
testsVars == <<wasSuccessful, success>>
finalVars == <<python_results, n8n_results, doc_results, structure_results,
                  final_report>>

\* Exit statuses are "0", "1" or the name of the uncaught exception that ended
\* the process; Python values True, False and None are "True", "False", "None".
NoExit == "running"
NoReport == [overall_status |-> "none"]
None == "None"

\* Largest number of leading entries of a checked list (files, directories,
\* modules, scripts, documents) that the file system may make fail.
MaxAbsent == 2

Min(a, b) == IF a <= b THEN a ELSE b

RECURSIVE SeqToSet(_)
SeqToSet(s) == IF s = <<>> THEN {} ELSE {Head(s)} \cup SeqToSet(Tail(s))

\* The sets made of the first k entries of a list, k = 0 .. MaxAbsent.
Prefixes(list) ==
    { SeqToSet(SubSeq(list, 1, k)) : k \in 0..Min(MaxAbsent, Len(list)) }

(***************************************************************************)
(* validate_project.py                                                     *)
(***************************************************************************)

\* A result logged by log_result; test is <<name, item>> (f"File: {file_path}"
\* is <<"File", file_path>>, a plain name has item "").
Entry(t, s, m) == [test |-> t, status |-> s, message |-> m]

\* log_result with the WARN branch appending to errors as well.
log_result_warn_as_error(self, e) ==
    [validation_results |-> Append(self.validation_results, e),
     errors   |-> IF e.status \in {"FAIL", "WARN"}
                  THEN Append(self.errors, <<e.test, e.message>>)
                  ELSE self.errors,
     warnings |-> IF e.status = "WARN"
                  THEN Append(self.warnings, <<e.test, e.message>>)
                  ELSE self.warnings]

\* ProjectValidator.log_result: every result is appended to validation_results;
\* a FAIL is also appended to errors and a WARN to warnings, as "test: message".
log_result(self, e) ==
    [validation_results |-> Append(self.validation_results, e),
     errors   |-> IF e.status = "FAIL"
                  THEN Append(self.errors, <<e.test, e.message>>)
                  ELSE self.errors,
     warnings |-> IF e.status = "WARN"
                  THEN Append(self.warnings, <<e.test, e.message>>)
                  ELSE self.warnings]

\* The log_result calls of one validation, in order.
RECURSIVE LogAll(_, _)
LogAll(self, logs) ==
    IF logs = <<>> THEN self ELSE LogAll(log_result(self, Head(logs)), Tail(logs))

HasFail(logs) == \E k \in 1..Len(logs) : logs[k].status = "FAIL"
HasWarn(logs) == \E k \in 1..Len(logs) : logs[k].status = "WARN"

\* What a validate_* method did: the log_result calls it made, in order, and
\* how it ended: "True", "False" (its return value) or "Raise" (an exception
\* left the method).
Outcome(logs, ret) == [logs |-> logs, ret |-> ret]
Bool(b) == IF b THEN "True" ELSE "False"

\* ---- validate_python_version
validate_python_version(env) ==
    IF env.version_ok
    THEN Outcome(<<Entry(<<"Python Version", "">>, "PASS", "is compatible")>>, "True")
    ELSE Outcome(<<Entry(<<"Python Version", "">>, "FAIL", "< 3.8 (required)")>>, "False")

\* ---- validate_project_structure
required_files ==
    <<"main.py", "requirements.txt", "setup.py", ".env.example", "walkthrough.md",
      "workflow_export.json", "run_tests.py", ".gitignore">>
required_directories ==
    <<"config", "models", "services", "workflow", "tests", "scripts", "docker">>

validate_project_structure(env) ==
    LET FileLog(f) == IF f \notin env.absent
                      THEN Entry(<<"File", f>>, "PASS", "File exists")
                      ELSE Entry(<<"File", f>>, "FAIL", "File missing")
        DirLog(d)  == IF d \notin env.absent
                      THEN Entry(<<"Directory", d>>, "PASS", "Directory exists")
                      ELSE Entry(<<"Directory", d>>, "FAIL", "Directory missing")
        logs == [k \in 1..Len(required_files) |-> FileLog(required_files[k])]
                \o [k \in 1..Len(required_directories) |-> DirLog(required_directories[k])]
        \* all_valid starts True and is cleared beside every FAIL
        all_valid == ~HasFail(logs)
    IN  Outcome(logs, Bool(all_valid))

\* ---- validate_python_modules
modules_to_test ==
    <<"config.settings", "models.candidate", "services.email_processor",
      "services.keyword_screener", "services.sheets_manager",
      "services.email_templates", "workflow.orchestrator">>

\* Both except clauses (ImportError, Exception) log FAIL and clear all_valid;
\* they differ in the message text only, env.unimportable covers both.
validate_python_modules(env) ==
    LET ImportLog(m) == IF m \notin env.unimportable
                        THEN Entry(<<"Import", m>>, "PASS", "imports successfully")
                        ELSE Entry(<<"Import", m>>, "FAIL", "Import failed")
        logs == [k \in 1..Len(modules_to_test) |-> ImportLog(modules_to_test[k])]
        all_valid == ~HasFail(logs)
    IN  Outcome(logs, Bool(all_valid))

\* ---- validate_dependencies
\* env.requirements: "stat_error" (Path.exists raises, outside the try),
\* "absent", "unreadable", "missing_packages" or "ok".
validate_dependencies(env) ==
    CASE env.requirements = "stat_error" -> Outcome(<<>>, "Raise")
      [] env.requirements = "absent" ->
           Outcome(<<Entry(<<"Dependencies", "">>, "FAIL", "requirements.txt not found")>>, "False")
      [] env.requirements = "missing_packages" ->
           Outcome(<<Entry(<<"Dependencies", "">>, "FAIL", "Missing packages")>>, "False")
      [] env.requirements = "unreadable" ->
           Outcome(<<Entry(<<"Dependencies", "">>, "FAIL", "Error checking dependencies")>>, "False")
      [] OTHER ->
           Outcome(<<Entry(<<"Dependencies", "">>, "PASS", "All dependencies available")>>, "True")

\* ---- validate_configuration_files
\* env.env_example: "absent", "unreadable", "missing_vars" or "complete";
\* env.workflow_export: "absent", "unreadable", "invalid_json", "missing_keys"
\* or "valid".
validate_configuration_files(env) ==
    LET envLog ==
            CASE env.env_example = "absent" ->
                   Entry(<<"Config: .env.example", "">>, "FAIL", "File not found")
              [] env.env_example = "unreadable" ->
                   Entry(<<"Config: .env.example", "">>, "FAIL", "Error reading file")
              [] env.env_example = "missing_vars" ->
                   Entry(<<"Config: .env.example", "">>, "WARN", "Missing variables")
              [] OTHER ->
                   Entry(<<"Config: .env.example", "">>, "PASS", "All required variables present")
        wfLog ==
            CASE env.workflow_export = "absent" ->
                   Entry(<<"Config: workflow_export.json", "">>, "FAIL", "File not found")
              [] env.workflow_export = "unreadable" ->
                   Entry(<<"Config: workflow_export.json", "">>, "FAIL", "Error reading file")
              [] env.workflow_export = "invalid_json" ->
                   Entry(<<"Config: workflow_export.json", "">>, "FAIL", "Invalid JSON")
              [] env.workflow_export = "missing_keys" ->
                   Entry(<<"Config: workflow_export.json", "">>, "WARN", "Missing keys")
              [] OTHER ->
                   Entry(<<"Config: workflow_export.json", "">>, "PASS", "Valid workflow specification")
        logs == <<envLog, wfLog>>
        all_valid == ~HasFail(logs)
    IN  Outcome(logs, Bool(all_valid))

\* ---- validate_docker_setup
\* env.dockerfile, env.compose: "absent", "unreadable", "incomplete" or "valid".
validate_docker_setup(env) ==
    LET FileLog(name, state, missing) ==
            CASE state = "absent"     -> Entry(name, "FAIL", missing)
              [] state = "unreadable" -> Entry(name, "FAIL", "Error reading")
              [] state = "incomplete" -> Entry(name, "WARN", "may be incomplete")
              [] OTHER                -> Entry(name, "PASS", "Valid structure")
        logs == <<FileLog(<<"Docker: Dockerfile", "">>, env.dockerfile, "Dockerfile not found"),
                  FileLog(<<"Docker: docker-compose.yml", "">>, env.compose,
                          "docker-compose.yml not found")>>
        all_valid == ~HasFail(logs)
    IN  Outcome(logs, Bool(all_valid))

\* ---- validate_test_suite
\* env.runner: "stat_error" (Path.exists raises), "absent" or "present";
\* env.test_files: number of tests/test_*.py files;
\* env.run: "passed" (return code 0), "failed", "timeout" or "error".
validate_test_suite(env) ==
    IF env.runner = "stat_error" THEN Outcome(<<>>, "Raise")
    ELSE IF env.runner = "absent"
    THEN Outcome(<<Entry(<<"Test Suite", "">>, "FAIL", "run_tests.py not found")>>, "False")
    ELSE IF env.test_files = 0
    THEN Outcome(<<Entry(<<"Test Suite", "">>, "WARN", "No test files found")>>, "False")
    ELSE LET found == Entry(<<"Test Suite", "">>, "PASS", "Found test files")
         IN  CASE env.run = "passed" ->
                    Outcome(<<found, Entry(<<"Test Execution", "">>, "PASS", "All tests passed")>>,
                            "True")
               [] env.run = "failed" ->
                    Outcome(<<found, Entry(<<"Test Execution", "">>, "WARN", "Some tests failed")>>,
                            "False")
               [] env.run = "timeout" ->
                    Outcome(<<found, Entry(<<"Test Execution", "">>, "WARN", "Tests timed out")>>,
                            "False")
               [] OTHER ->
                    Outcome(<<found, Entry(<<"Test Execution", "">>, "WARN", "Could not run tests")>>,
                            "False")

\* ---- validate_scripts
scripts_to_check == <<"setup_environment.py", "deploy.py", "monitor.py">>

\* env.absent, env.unreadable, env.no_main: sets of script names.
validate_scripts(env) ==
    LET ScriptLog(s) ==
            IF s \in env.absent THEN Entry(<<"Script", s>>, "FAIL", "not found")
            ELSE IF s \in env.unreadable
            THEN Entry(<<"Script", s>>, "FAIL", "Error reading script")
            ELSE IF s \in env.no_main
            THEN Entry(<<"Script", s>>, "WARN", "may not be executable")
            ELSE Entry(<<"Script", s>>, "PASS", "is executable")
        logs == [k \in 1..Len(scripts_to_check) |-> ScriptLog(scripts_to_check[k])]
        all_valid == ~HasFail(logs)
    IN  Outcome(logs, Bool(all_valid))

\* ---- validate_main_entry_point
required_components ==
    <<"Command line argument parsing", "Main function", "Script execution guard">>

\* env.main_py: "stat_error", "absent", "unreadable" or "present";
\* env.missing: the components main.py does not contain.
validate_main_entry_point(env) ==
    CASE env.main_py = "stat_error" -> Outcome(<<>>, "Raise")
      [] env.main_py = "absent" ->
           Outcome(<<Entry(<<"Main Entry Point", "">>, "FAIL", "main.py not found")>>, "False")
      [] env.main_py = "unreadable" ->
           Outcome(<<Entry(<<"Main Entry Point", "">>, "FAIL", "Error reading main.py")>>, "False")
      [] OTHER ->
           LET CompLog(c) == IF c \notin env.missing
                             THEN Entry(<<"Main", c>>, "PASS", "Component present")
                             ELSE Entry(<<"Main", c>>, "WARN", "Component missing")
               logs == [k \in 1..Len(required_components) |-> CompLog(required_components[k])]
               \* all_present starts True and is cleared beside every WARN
               all_present == ~HasWarn(logs)
           IN  Outcome(logs, Bool(all_present))

\* ---- validate_documentation
docs_to_check == <<"README.md", "walkthrough.md", "PROJECT_SUMMARY.md">>

\* env.absent, env.unreadable, env.short (at most 100 words): sets of names.
validate_documentation(env) ==
    LET DocLog(d) ==
            IF d \in env.absent THEN Entry(<<"Docs", d>>, "FAIL", "not found")
            ELSE IF d \in env.unreadable
            THEN Entry(<<"Docs", d>>, "FAIL", "Error reading")
            ELSE IF d \in env.short
            THEN Entry(<<"Docs", d>>, "WARN", "seems incomplete")
            ELSE Entry(<<"Docs", d>>, "PASS", "words")
        logs == [k \in 1..Len(docs_to_check) |-> DocLog(docs_to_check[k])]
        all_valid == ~HasFail(logs)
    IN  Outcome(logs, Bool(all_valid))


\* ---- the file-system and interpreter states each validation may observe
VersionInputs == {[version_ok |-> b] : b \in BOOLEAN}
StructureInputs == {[absent |-> a] : a \in Prefixes(required_files \o required_directories)}
ModuleInputs == {[unimportable |-> a] : a \in Prefixes(modules_to_test)}
DependencyInputs ==
    {[requirements |-> r] : r \in {"ok", "absent", "missing_packages", "stat_error"}}
ConfigInputs ==
    {[env_example |-> "complete",     workflow_export |-> "valid"],
     [env_example |-> "missing_vars", workflow_export |-> "missing_keys"],
     [env_example |-> "absent",       workflow_export |-> "invalid_json"]}
DockerInputs ==
    {[dockerfile |-> "valid",      compose |-> "valid"],
     [dockerfile |-> "incomplete", compose |-> "valid"],
     [dockerfile |-> "absent",     compose |-> "unreadable"]}
TestSuiteInputs ==
    {[runner |-> "present", test_files |-> 1, run |-> "passed"],
     [runner |-> "present", test_files |-> 1, run |-> "failed"],
     [runner |-> "present", test_files |-> 0, run |-> "passed"],
     [runner |-> "absent",  test_files |-> 0, run |-> "error"]}
ScriptInputs ==
    {[absent |-> a, unreadable |-> {}, no_main |-> {}] : a \in Prefixes(scripts_to_check)}
MainInputs ==
    {[main_py |-> "present",    missing |-> {}],
     [main_py |-> "present",    missing |-> {"Main function"}],
     [main_py |-> "absent",     missing |-> {}],
     [main_py |-> "stat_error", missing |-> {}]}
DocInputs ==
    {[absent |-> a, unreadable |-> {}, short |-> {}] : a \in Prefixes(docs_to_check)}

\* ---- run_comprehensive_validation
validation_functions ==
    <<"Python Version", "Project Structure", "Python Modules", "Dependencies",
      "Configuration Files", "Docker Setup", "Test Suite", "Utility Scripts",
      "Main Entry Point", "Documentation">>

total_tests == Len(validation_functions)

\* The body of the for loop for the entry test_name of validation_functions,
\* whose call test_function() ended as `out`: a truthy result counts as
\* passed, an exception is logged as a FAIL of test_name.
LoopBody(test_name, out) ==
    /\ script = "validate_project"
    /\ pc = "validating"
    /\ idx < total_tests
    /\ validation_functions[idx + 1] = test_name
    /\ LET ran == LogAll([validation_results |-> validation_results,
                          errors |-> errors, warnings |-> warnings], out.logs)
           self == IF out.ret = "Raise"
                   THEN log_result(ran, Entry(<<test_name, "">>, "FAIL", "Validation error"))
                   ELSE ran
       IN  /\ validation_results' = self.validation_results
           /\ errors' = self.errors
           /\ warnings' = self.warnings
    /\ passed_tests' = IF out.ret = "True" THEN passed_tests + 1 ELSE passed_tests
    /\ outcomes' = Append(outcomes, out.ret)
    /\ idx' = idx + 1
    /\ pc' = IF idx + 1 = total_tests THEN "summary" ELSE "validating"
    /\ UNCHANGED <<script, exitCode, sysExitCalled, report, reportFile,
                   mainVars, testsVars, finalVars>>

ValidatePythonVersion ==
    \E env \in VersionInputs : LoopBody("Python Version", validate_python_version(env))
ValidateProjectStructure ==
    \E env \in StructureInputs :
        LoopBody("Project Structure", validate_project_structure(env))
ValidatePythonModules ==
    \E env \in ModuleInputs : LoopBody("Python Modules", validate_python_modules(env))
ValidateDependencies ==
    \E env \in DependencyInputs : LoopBody("Dependencies", validate_dependencies(env))
ValidateConfigurationFiles ==
    \E env \in ConfigInputs :
        LoopBody("Configuration Files", validate_configuration_files(env))
ValidateDockerSetup ==
    \E env \in DockerInputs : LoopBody("Docker Setup", validate_docker_setup(env))
ValidateTestSuite ==
    \E env \in TestSuiteInputs : LoopBody("Test Suite", validate_test_suite(env))
ValidateScripts ==
    \E env \in ScriptInputs : LoopBody("Utility Scripts", validate_scripts(env))
ValidateMainEntryPoint ==
    \E env \in MainInputs : LoopBody("Main Entry Point", validate_main_entry_point(env))
ValidateDocumentation ==
    \E env \in DocInputs : LoopBody("Documentation", validate_documentation(env))

\* success_rate = (passed_tests / total_tests) * 100.  With total_tests = 10
\* the float results are exactly 0.0, 10.0, ..., 100.0, so the integer is the
\* value the comparisons below see.
success_rate(passed) == (passed * 100) \div total_tests

\* The chain with `success_rate > 80` for `success_rate >= 80`.
overall_status_strict(rate, nerrors) ==
    IF rate >= 90 /\ nerrors = 0 THEN "EXCELLENT"
    ELSE IF rate > 80 /\ nerrors <= 2 THEN "GOOD"
    ELSE IF rate >= 60 THEN "NEEDS_IMPROVEMENT"
    ELSE "CRITICAL_ISSUES"

\* The if/elif chain that assigns status.
overall_status(rate, nerrors) ==
    IF rate >= 90 /\ nerrors = 0 THEN "EXCELLENT"
    ELSE IF rate >= 80 /\ nerrors <= 2 THEN "GOOD"
    ELSE IF rate >= 60 THEN "NEEDS_IMPROVEMENT"
    ELSE "CRITICAL_ISSUES"

\* The report dict (validation_timestamp omitted).
build_report(passed) ==
    [overall_status   |-> overall_status(success_rate(passed), Len(errors)),
     success_rate     |-> success_rate(passed),
     passed_tests     |-> passed,
     total_tests      |-> total_tests,
     errors           |-> errors,
     warnings         |-> warnings,
     detailed_results |-> validation_results]

\* The rest of run_comprehensive_validation after the loop: summary, status,
\* report, json.dump to validation_report.json, return report.
Summarize ==
    /\ script = "validate_project"
    /\ pc = "summary"
    /\ report' = build_report(passed_tests)
    /\ reportFile' = Append(reportFile, build_report(passed_tests))
    /\ pc' = "returned"
    /\ UNCHANGED <<script, exitCode, sysExitCalled, validation_results, errors,
                   warnings, passed_tests, idx, outcomes,
                   mainVars, testsVars, finalVars>>

\* main() accepting every status but CRITICAL_ISSUES.
validate_exit_code_lenient(status) == IF status # "CRITICAL_ISSUES" THEN "0" ELSE "1"

\* validate_project.py main(): the exit code for a report.
validate_exit_code(status) == IF status \in {"EXCELLENT", "GOOD"} THEN "0" ELSE "1"

ValidateMainExit ==
    /\ script = "validate_project"
    /\ pc = "returned"
    /\ exitCode' = validate_exit_code(report.overall_status)
    /\ sysExitCalled' = TRUE
    /\ pc' = "exited"
    /\ UNCHANGED <<script, validateVars, mainVars, testsVars, finalVars>>

(***************************************************************************)
(* main.py                                                                 *)
(***************************************************************************)

\* Largest number of services in the dict test_connections() returns.
MaxServices == 2

\* The dicts orchestrator.test_connections() may return, as the sequence of
\* the truthiness of their values in dict order (service k is the k-th key).
ConnectionResults == UNION {[1..k -> BOOLEAN] : k \in 0..MaxServices}

\* What a call into the orchestrator, the logger or the settings may raise.
Raisable == {"Exception", "KeyboardInterrupt"}

\* A bare `except:`, which matches SystemExit and KeyboardInterrupt too.
is_Exception_bare(exc) == TRUE

\* `except Exception`: matches Exception and its subclasses, not SystemExit
\* nor KeyboardInterrupt (both derive from BaseException only).
is_Exception(exc) == exc \notin {"SystemExit", "KeyboardInterrupt"}

\* any() for all().
any_truthy(results) == \E k \in 1..Len(results) : results[k]

\* all(connection_results.values())
all_truthy(results) == \A k \in 1..Len(results) : results[k]

\* The logger.error calls of the for loop over connection_results.items().
RECURSIVE connection_errors(_, _)
connection_errors(results, k) ==
    IF k > Len(results) THEN <<>>
    ELSE (IF results[k] THEN <<>> ELSE <<<<"connection failed", k>>>>)
         \o connection_errors(results, k + 1)

\* sys.exit(0 if success else 1)
run_exit_arg(ok) == IF ok = "True" THEN "0" ELSE "1"

\* sys.exit(0) in the except clause.
handler_exit_arg_zero == "0"

\* sys.exit(1) of the except clause of main()
handler_exit_arg == "1"

\* An exception leaves run_workflow (or a command function) into main()'s try.
Propagate(exc) ==
    /\ pending' = exc
    /\ pc' = "except"

\* main(): `if args.command == 'run'`, entering run_workflow() up to and
\* including orchestrator = WorkflowOrchestrator().
RunWorkflowConstruct ==
    /\ script = "main" /\ pc = "dispatch" /\ command = "run"
    /\ \/ pc' = "rw_test" /\ UNCHANGED <<pending, rwResult>>
       \/ \E exc \in Raisable : Propagate(exc) /\ rwResult' = "raised"
    /\ UNCHANGED <<script, exitCode, sysExitCalled, validateVars, command,
                   connection_results, testCalls, testReturns, contCalls, contOutcome,
                   cmdOutcome, exitArg, errorLog, testsVars, finalVars>>

\* connection_results = orchestrator.test_connections()
RunWorkflowTestConnections ==
    /\ script = "main" /\ pc = "rw_test"
    /\ testCalls' = testCalls + 1
    /\ \/ \E r \in ConnectionResults :
            /\ connection_results' = r
            /\ testReturns' = testReturns + 1
            /\ pc' = "rw_check"
            /\ UNCHANGED <<pending, rwResult>>
       \/ \E exc \in Raisable :
            /\ Propagate(exc)
            /\ rwResult' = "raised"
            /\ UNCHANGED <<connection_results, testReturns>>
    /\ UNCHANGED <<script, exitCode, sysExitCalled, validateVars, command,
                   contCalls, contOutcome, cmdOutcome, exitArg, errorLog,
                   testsVars, finalVars>>

\* The loop logging each service, then `if not all(...)`: return False.
RunWorkflowCheckConnections ==
    /\ script = "main" /\ pc = "rw_check"
    /\ IF ~all_truthy(connection_results)
       THEN /\ errorLog' = errorLog \o connection_errors(connection_results, 1)
                           \o <<<<"Some service connections failed", 0>>>>
            /\ rwResult' = "False"
            /\ pc' = "rw_returned"
       ELSE /\ errorLog' = errorLog \o connection_errors(connection_results, 1)
            /\ pc' = "rw_run"
            /\ UNCHANGED rwResult
    /\ UNCHANGED <<script, exitCode, sysExitCalled, validateVars, command,
                   connection_results, testCalls, testReturns, contCalls, contOutcome,
                   cmdOutcome, pending, exitArg, testsVars, finalVars>>

\* run_continuous with a retry: after an Exception the connections are tested
\* and the workflow started again.
RunWorkflowRunContinuous_retry ==
    /\ script = "main" /\ pc = "rw_run"
    /\ contCalls' = contCalls + 1
    /\ \E out \in {"returned"} \cup Raisable :
        /\ contOutcome' = out
        /\ IF out = "Exception"
           THEN /\ errorLog' = Append(errorLog, <<"Workflow error", 0>>)
                /\ pc' = "rw_test"
                /\ UNCHANGED rwResult
           ELSE /\ rwResult' = "True"
                /\ pc' = "rw_returned"
                /\ UNCHANGED errorLog
    /\ UNCHANGED <<script, exitCode, sysExitCalled, validateVars, command,
                   connection_results, testCalls, testReturns, cmdOutcome, pending,
                   exitArg, testsVars, finalVars>>

\* try: orchestrator.run_continuous(), with its two except clauses, then
\* return True.
RunWorkflowRunContinuous ==
    /\ script = "main" /\ pc = "rw_run"
    /\ contCalls' = contCalls + 1
    /\ \E out \in {"returned"} \cup Raisable :
        /\ contOutcome' = out
        /\ IF out = "KeyboardInterrupt"
           THEN rwResult' = "True" /\ UNCHANGED errorLog
           ELSE IF out # "returned" /\ is_Exception(out)
           THEN /\ errorLog' = Append(errorLog, <<"Workflow error", 0>>)
                /\ rwResult' = "False"
           ELSE rwResult' = "True" /\ UNCHANGED errorLog
    /\ pc' = "rw_returned"
    /\ UNCHANGED <<script, exitCode, sysExitCalled, validateVars, command,
                   connection_results, testCalls, testReturns, cmdOutcome, pending, exitArg,
                   testsVars, finalVars>>

\* success = run_workflow(); sys.exit(0 if success else 1): raises SystemExit
\* inside the try body.
MainExitRun ==
    /\ script = "main" /\ pc = "rw_returned"
    /\ sysExitCalled' = TRUE
    /\ exitArg' = run_exit_arg(rwResult)
    /\ Propagate("SystemExit")
    /\ UNCHANGED <<script, exitCode, validateVars, command, connection_results,
                   testCalls, testReturns, contCalls, contOutcome, rwResult, cmdOutcome,
                   errorLog, testsVars, finalVars>>

\* run_single_cycle(), test_workflow(), show_status(): each builds an
\* orchestrator, calls it once and returns what it got, or raises.
CommandFunction(name) ==
    /\ script = "main" /\ pc = "dispatch" /\ command = name
    /\ \/ \E value \in {"falsy", "truthy"} :
            /\ cmdOutcome' = value
            /\ pc' = "cmd_returned"
            /\ UNCHANGED pending
       \/ \E exc \in Raisable :
            /\ cmdOutcome' = exc
            /\ Propagate(exc)
    /\ UNCHANGED <<script, exitCode, sysExitCalled, validateVars, command,
                   connection_results, testCalls, testReturns, contCalls, contOutcome,
                   rwResult, exitArg, errorLog, testsVars, finalVars>>

RunSingleCycle == CommandFunction("single")
TestWorkflow == CommandFunction("test")
ShowStatus == CommandFunction("status")

\* The command function returned: main() falls off its end, the interpreter
\* exits with status 0.
MainReturn ==
    /\ script = "main" /\ pc = "cmd_returned"
    /\ exitCode' = "0"
    /\ pc' = "exited"
    /\ UNCHANGED <<script, sysExitCalled, validateVars, mainVars, testsVars,
                   finalVars>>

\* except Exception as e: logger.error(f"Application error: {e}")
MainHandlerLog ==
    /\ script = "main" /\ pc = "except"
    /\ is_Exception(pending)
    /\ errorLog' = Append(errorLog, <<"Application error", 0>>)
    /\ pc' = "handler_exit"
    /\ UNCHANGED <<script, exitCode, sysExitCalled, validateVars, command,
                   connection_results, testCalls, testReturns, contCalls, contOutcome,
                   rwResult, cmdOutcome, pending, exitArg, testsVars, finalVars>>

\* ... sys.exit(1)
MainHandlerExit ==
    /\ script = "main" /\ pc = "handler_exit"
    /\ sysExitCalled' = TRUE
    /\ exitArg' = handler_exit_arg
    /\ exitCode' = handler_exit_arg
    /\ pending' = "SystemExit"
    /\ pc' = "exited"
    /\ UNCHANGED <<script, validateVars, command, connection_results, testCalls, testReturns,
                   contCalls, contOutcome, rwResult, cmdOutcome, errorLog,
                   testsVars, finalVars>>

\* The except clause does not match: the exception leaves main() and ends the
\* process, a SystemExit with its argument as the status.
MainUncaught ==
    /\ script = "main" /\ pc = "except"
    /\ ~is_Exception(pending)
    /\ exitCode' = IF pending = "SystemExit" THEN exitArg ELSE pending
    /\ pc' = "exited"
    /\ UNCHANGED <<script, sysExitCalled, validateVars, mainVars, testsVars,
                   finalVars>>

(***************************************************************************)
(* run_tests.py                                                            *)
(***************************************************************************)

\* run_tests(): discover the suite under 'tests', run it, return
\* result.wasSuccessful(); discovery may raise (start directory not importable).
RunTests ==
    /\ script = "run_tests" /\ pc = "run_tests"
    /\ \/ \E ok \in {"True", "False"} :
            /\ wasSuccessful' = ok
            /\ success' = ok
            /\ pc' = "tests_returned"
            /\ UNCHANGED exitCode
       \/ /\ exitCode' = "1"
          /\ pc' = "exited"
          /\ UNCHANGED <<wasSuccessful, success>>
    /\ UNCHANGED <<script, sysExitCalled, validateVars, mainVars, finalVars>>

\* The exit codes swapped.
tests_exit_arg_swapped(ok) == IF ok = "True" THEN "1" ELSE "0"

\* sys.exit(0 if success else 1)
tests_exit_arg(ok) == IF ok = "True" THEN "0" ELSE "1"

RunTestsExit ==
    /\ script = "run_tests" /\ pc = "tests_returned"
    /\ sysExitCalled' = TRUE
    /\ exitCode' = tests_exit_arg(success)
    /\ pc' = "exited"
    /\ UNCHANGED <<script, validateVars, mainVars, testsVars, finalVars>>

(***************************************************************************)
(* final_validation.py                                                     *)
(***************************************************************************)

\* dict.get that answers True for a missing key.
Get_missing_true(d, key, default) == IF key \in DOMAIN d THEN d[key] ELSE TRUE

\* dict.get(key, default)
Get(d, key, default) == IF key \in DOMAIN d THEN d[key] ELSE default

\* sum() and + over Python booleans: True is 1, False is 0.
B2I(b) == IF b THEN 1 ELSE 0

\* validate_python_implementation(): the imports, the orchestrator
\* construction, `python run_tests.py` and `python main.py test`
\* (success = return code 0).  test_count (printed only) is omitted.
validate_python_implementation(env) ==
    [imports       |-> env.imports_ok,
     services      |-> env.services_ok,
     tests         |-> env.tests_rc = "0",
     workflow_test |-> env.main_test_rc = "0"]

n8n_files ==
    <<"n8n_workflow_export.json", "n8n_workflow_documentation.md",
      "n8n_workflow_canvas_description.md", "n8n_setup_guide.md",
      "implementation_comparison.md">>

\* validate_n8n_implementation(): env.absent is the set of missing files,
\* env.export_json is "invalid" (json.load or a .get raises), "types_missing"
\* or "complete"; opening an absent export file raises too.  node_types is set
\* only inside the try, before json_valid.  node_count and connection_count
\* (printed only) are omitted.
validate_n8n_implementation(env) ==
    LET missing_files == {f \in SeqToSet(n8n_files) : f \in env.absent}
        base == [files_present |-> missing_files = {},
                 missing_files |-> missing_files]
        loaded == "n8n_workflow_export.json" \notin env.absent
                  /\ env.export_json # "invalid"
    IN  IF loaded
        THEN [k \in {"files_present", "missing_files", "node_types", "json_valid"} |->
                CASE k = "node_types" -> env.export_json = "complete"
                  [] k = "json_valid" -> TRUE
                  [] OTHER -> base[k]]
        ELSE [k \in {"files_present", "missing_files", "json_valid"} |->
                CASE k = "json_valid" -> FALSE
                  [] OTHER -> base[k]]

fv_docs ==
    <<"README.md", "walkthrough.md", "n8n_workflow_documentation.md",
      "n8n_setup_guide.md", "implementation_comparison.md", "PROJECT_SUMMARY.md",
      "DELIVERABLES_SUMMARY.md">>

\* validate_documentation() of final_validation.py (total_words omitted).
fv_validate_documentation(env) ==
    LET missing_docs == {d \in SeqToSet(fv_docs) : d \in env.absent}
    IN  [missing_docs  |-> missing_docs,
         docs_complete |-> missing_docs = {}]

fv_required_files ==
    <<"main.py", "requirements.txt", "setup.py", ".env.example", "run_tests.py",
      ".gitignore">>
fv_required_directories ==
    <<"config", "models", "services", "workflow", "tests", "scripts", "docker">>

\* validate_project_structure() of final_validation.py
fv_validate_project_structure(env) ==
    LET missing_files == {f \in SeqToSet(fv_required_files) : f \in env.absent}
        missing_dirs  == {d \in SeqToSet(fv_required_directories) : d \in env.absent}
    IN  [missing_files      |-> missing_files,
         missing_dirs       |-> missing_dirs,
         structure_complete |-> missing_files = {} /\ missing_dirs = {}]

max_score == 9

\* The if/elif chain of generate_final_report.  The thresholds max_score * 0.8
\* and max_score * 0.6 are the floats 7.2 and 5.4 (to within one ulp); no
\* integer score lies that close to them, so the scaled integer comparison
\* decides as the float comparison does.
final_status(total_score) ==
    IF total_score = max_score THEN "EXCELLENT"
    ELSE IF total_score * 10 >= max_score * 8 THEN "GOOD"
    ELSE IF total_score * 10 >= max_score * 6 THEN "FAIR"
    ELSE "NEEDS WORK"

generate_final_report(py, n8n, doc, structure) ==
    LET python_score == B2I(Get(py, "imports", FALSE))
                        + B2I(Get(py, "services", FALSE))
                        + B2I(Get(py, "tests", FALSE))
                        + B2I(Get(py, "workflow_test", FALSE))
        n8n_score == B2I(Get(n8n, "files_present", FALSE))
                     + B2I(Get(n8n, "json_valid", FALSE))
                     + B2I(Get(n8n, "node_types", FALSE))
        doc_score == Get(doc, "docs_complete", FALSE)
        structure_score == Get(structure, "structure_complete", FALSE)
        total_score == python_score + n8n_score + B2I(doc_score) + B2I(structure_score)
    IN  [overall_score |-> total_score,
         max_score     |-> max_score,
         status        |-> final_status(total_score),
         python_results |-> py,
         n8n_results    |-> n8n,
         doc_results    |-> doc,
         structure_results |-> structure]

FinalStep(from, to) ==
    /\ script = "final_validation" /\ pc = from
    /\ pc' = to
    /\ UNCHANGED <<script, exitCode, sysExitCalled, validateVars, mainVars, testsVars>>

FinalValidatePython ==
    /\ FinalStep("fv_python", "fv_n8n")
    /\ \E io \in BOOLEAN, so \in BOOLEAN, trc \in {"0", "1"}, mrc \in {"0", "1"} :
         python_results' = validate_python_implementation(
             [imports_ok |-> io, services_ok |-> so, tests_rc |-> trc,
              main_test_rc |-> mrc])
    /\ UNCHANGED <<n8n_results, doc_results, structure_results, final_report>>

FinalValidateN8n ==
    /\ FinalStep("fv_n8n", "fv_docs")
    /\ \E a \in Prefixes(n8n_files) \cup {{n8n_files[Len(n8n_files)]}},
          j \in {"invalid", "types_missing", "complete"} :
         n8n_results' = validate_n8n_implementation([absent |-> a, export_json |-> j])
    /\ UNCHANGED <<python_results, doc_results, structure_results, final_report>>

FinalValidateDocumentation ==
    /\ FinalStep("fv_docs", "fv_structure")
    /\ \E a \in Prefixes(fv_docs) :
         doc_results' = fv_validate_documentation([absent |-> a])
    /\ UNCHANGED <<python_results, n8n_results, structure_results, final_report>>

FinalValidateStructure ==
    /\ FinalStep("fv_structure", "fv_report")
    /\ \E a \in Prefixes(fv_required_files) \cup Prefixes(fv_required_directories) :
         structure_results' = fv_validate_project_structure([absent |-> a])
    /\ UNCHANGED <<python_results, n8n_results, doc_results, final_report>>

\* final_report = generate_final_report(...), then json.dump and the end of
\* the script (exit status 0).
FinalReport ==
    /\ script = "final_validation" /\ pc = "fv_report"
    /\ final_report' = generate_final_report(python_results, n8n_results,
                                             doc_results, structure_results)
    /\ exitCode' = "0"
    /\ pc' = "exited"
    /\ UNCHANGED <<script, sysExitCalled, validateVars, mainVars, testsVars,
                   python_results, n8n_results, doc_results, structure_results>>

Init ==
    /\ script \in {"validate_project", "main", "run_tests", "final_validation"}
    /\ pc = CASE script = "validate_project" -> "validating"
              [] script = "main" -> "dispatch"
              [] script = "run_tests" -> "run_tests"
              [] OTHER -> "fv_python"
    /\ exitCode = NoExit
    /\ sysExitCalled = FALSE
    /\ validation_results = <<>>
    /\ errors = <<>>
    /\ warnings = <<>>
    /\ passed_tests = 0
    /\ idx = 0
    /\ outcomes = <<>>
    /\ report = NoReport
    /\ reportFile = <<>>
    /\ command \in IF script = "main" THEN {"run", "single", "test", "status"} ELSE {None}
    /\ connection_results = <<>>
    /\ testCalls = 0
    /\ testReturns = 0
    /\ contCalls = 0
    /\ contOutcome = None
    /\ rwResult = None
    /\ cmdOutcome = None
    /\ pending = None
    /\ exitArg = None
    /\ errorLog = <<>>
    /\ wasSuccessful = None
    /\ success = None
    /\ python_results = None
    /\ n8n_results = None
    /\ doc_results = None
    /\ structure_results = None
    /\ final_report = None

Next ==
    \/ ValidatePythonVersion
    \/ ValidateProjectStructure
    \/ ValidatePythonModules
    \/ ValidateDependencies
    \/ ValidateConfigurationFiles
    \/ ValidateDockerSetup
    \/ ValidateTestSuite
    \/ ValidateScripts
    \/ ValidateMainEntryPoint
    \/ ValidateDocumentation
    \/ Summarize
    \/ ValidateMainExit
    \/ RunWorkflowConstruct
    \/ RunWorkflowTestConnections
    \/ RunWorkflowCheckConnections
    \/ RunWorkflowRunContinuous
    \/ MainExitRun
    \/ RunSingleCycle
    \/ TestWorkflow
    \/ ShowStatus
    \/ MainReturn
    \/ MainHandlerLog
    \/ MainHandlerExit
    \/ MainUncaught
    \/ RunTests
    \/ RunTestsExit
    \/ FinalValidatePython
    \/ FinalValidateN8n
    \/ FinalValidateDocumentation
    \/ FinalValidateStructure
    \/ FinalReport

Spec == Init /\ [][Next]_vars

(***************************************************************************)
(* Properties                                                              *)
(***************************************************************************)

Logged(tag) == \E k \in 1..Len(errorLog) : errorLog[k][1] = tag

RunCommand == script = "main" /\ command = "run"
OtherCommand == script = "main" /\ command \in {"single", "test", "status"}

\* C1: for the 'run' command the process exits with code 0 exactly when
\* run_workflow() returned True and with code 1 when it returned False; the
\* except clause never handles the SystemExit of sys.exit, so no application
\* error is logged once run_workflow has returned.
C1_RunExitCode ==
    /\ (RunCommand /\ pc = "exited") =>
          /\ (exitCode = "0" <=> rwResult = "True")
          /\ (rwResult = "False" => exitCode = "1")
    /\ (RunCommand /\ rwResult \in {"True", "False"}) => ~Logged("Application error")

C1_Witness ==
    RunCommand /\ pc = "exited" /\ rwResult = "True" /\ exitCode = "0" /\ sysExitCalled

\* C2: run_continuous() is called only after test_connections() has returned
\* with every result truthy; once a result is falsy run_continuous is never
\* called and run_workflow returns False.
C2_ContinuousOnlyAfterConnections ==
    /\ contCalls > 0 =>
          /\ testReturns = 1
          /\ \A k \in 1..Len(connection_results) : connection_results[k]
    /\ (\E k \in 1..Len(connection_results) : ~connection_results[k]) =>
          /\ contCalls = 0
          /\ pc # "rw_run"
          /\ pc # "rw_check" => rwResult = "False"

C2_Witness ==
    /\ RunCommand /\ pc = "exited" /\ contCalls = 0 /\ rwResult = "False"
    /\ Len(connection_results) = 2 /\ connection_results[1] /\ ~connection_results[2]

\* The number of FAIL results logged so far.
FailsLogged ==
    Cardinality({k \in 1..Len(validation_results) : validation_results[k].status = "FAIL"})

\* C3: validate_project.py exits with code 0 if and only if overall_status is
\* EXCELLENT or GOOD, with code 1 for NEEDS_IMPROVEMENT and CRITICAL_ISSUES;
\* exit code 0 implies at least 8 of the 10 validations returned True and at
\* most 2 FAIL results were logged.
C3_ValidateExitCode ==
    (script = "validate_project" /\ pc = "exited") =>
        /\ (exitCode = "0" <=> report.overall_status \in {"EXCELLENT", "GOOD"})
        /\ (report.overall_status \in {"NEEDS_IMPROVEMENT", "CRITICAL_ISSUES"}
               => exitCode = "1")
        /\ exitCode \in {"0", "1"}
        /\ exitCode = "0" =>
              /\ Cardinality({k \in 1..Len(outcomes) : outcomes[k] = "True"}) >= 8
              /\ Len(outcomes) = 10
              /\ FailsLogged <= 2

C3_Witness ==
    /\ script = "validate_project" /\ pc = "exited" /\ exitCode = "0"
    /\ passed_tests = 8 /\ FailsLogged = 2

\* C4: with p validations returning True and e FAIL results logged, the report
\* carries exactly the status of the first matching rule: EXCELLENT when
\* p >= 9 and e = 0, GOOD when p >= 8 and e <= 2, NEEDS_IMPROVEMENT when
\* p >= 6, CRITICAL_ISSUES otherwise; a status is assigned whenever the report
\* is built.
C4_StatusByFirstMatch ==
    (script = "validate_project" /\ pc \in {"returned", "exited"}) =>
        LET p == Cardinality({k \in 1..Len(outcomes) : outcomes[k] = "True"})
            e == FailsLogged
        IN  /\ p \in 0..10
            /\ report.overall_status =
                  (IF p >= 9 /\ e = 0 THEN "EXCELLENT"
                   ELSE IF p >= 8 /\ e <= 2 THEN "GOOD"
                   ELSE IF p >= 6 THEN "NEEDS_IMPROVEMENT"
                   ELSE "CRITICAL_ISSUES")

C4_Witness ==
    /\ script = "validate_project" /\ pc = "returned"
    /\ passed_tests = 8 /\ FailsLogged = 3
    /\ report.overall_status = "NEEDS_IMPROVEMENT"

\* The "test: message" strings of the results of one status, in logging order.
Messages(status) ==
    LET picked == SelectSeq(validation_results, LAMBDA r : r.status = status)
    IN  [k \in 1..Len(picked) |-> <<picked[k].test, picked[k].message>>]

\* C5: validation_report.json is written exactly once, after all ten
\* validations have been attempted, whether they returned True, returned False
\* or raised; its errors and warnings are exactly the FAIL and WARN messages
\* logged, total_tests is 10 and passed_tests the number of validations that
\* returned a truthy value.
C5_ReportWrittenOnce ==
    script = "validate_project" =>
        /\ pc \in {"validating", "summary"} => reportFile = <<>>
        /\ pc \in {"returned", "exited"} =>
              /\ Len(reportFile) = 1
              /\ reportFile[1] = report
              /\ Len(outcomes) = 10
              /\ report.errors = Messages("FAIL")
              /\ report.warnings = Messages("WARN")
              /\ report.total_tests = 10
              /\ report.passed_tests =
                    Cardinality({k \in 1..Len(outcomes) : outcomes[k] = "True"})

C5_Witness ==
    /\ script = "validate_project" /\ pc = "returned" /\ Len(reportFile) = 1
    /\ \E k \in 1..Len(outcomes) : outcomes[k] = "Raise"
    /\ \E k \in 1..Len(outcomes) : outcomes[k] = "False"
    /\ report.warnings # <<>>
    /\ report.passed_tests = 7

\* C6 as stated: within one call of run_workflow(), test_connections() is
\* invoked exactly once and run_continuous() at most once; when
\* run_continuous() raises an exception other than KeyboardInterrupt,
\* run_workflow logs the error and returns False with no second call of either.
C6_ExactlyOneTest ==
    (RunCommand /\ rwResult # None) =>
        /\ testCalls = 1
        /\ contCalls <= 1
        /\ contOutcome = "Exception" =>
              rwResult = "False" /\ Logged("Workflow error") /\ contCalls = 1

\* C6 amended: test_connections() and run_continuous() are each invoked at most
\* once, test_connections() exactly once in every call of run_workflow() that
\* returns; when run_continuous() raises an exception other than
\* KeyboardInterrupt, run_workflow logs the error and returns False with no
\* second call of either.
C6_NoRetry ==
    script = "main" =>
        /\ testCalls <= 1
        /\ contCalls <= 1
        /\ rwResult \in {"True", "False"} => testCalls = 1
        /\ contOutcome = "Exception" =>
              /\ rwResult = "False"
              /\ Logged("Workflow error")
              /\ testCalls = 1
              /\ contCalls = 1

C6_Witness ==
    /\ RunCommand /\ pc = "exited" /\ contOutcome = "Exception"
    /\ rwResult = "False" /\ testCalls = 1 /\ contCalls = 1 /\ exitCode = "1"

\* C7: for 'single', 'test' and 'status' the process exits with code 1 if and
\* only if the command function raised an Exception, and then the error was
\* logged before the exit; when the command function returns, main() returns
\* without calling sys.exit and the status is 0, whatever the value returned.
C7_CommandExitCode ==
    /\ (OtherCommand /\ pc = "exited") =>
          /\ (exitCode = "1" <=> cmdOutcome = "Exception")
          /\ cmdOutcome \in {"falsy", "truthy"} => (~sysExitCalled /\ exitCode = "0")
    /\ (OtherCommand /\ (sysExitCalled \/ pc = "handler_exit")) =>
          (cmdOutcome = "Exception" /\ Logged("Application error"))

C7_Witness ==
    /\ OtherCommand /\ pc = "exited" /\ cmdOutcome = "Exception"
    /\ exitCode = "1" /\ Logged("Application error")

\* C8: run_tests.py exits with code 0 if and only if the unittest result
\* reports wasSuccessful(), with code 1 otherwise, and run_tests() returns that
\* same boolean.
C8_TestsExitCode ==
    script = "run_tests" =>
        /\ pc = "exited" =>
              /\ (exitCode = "0" <=> wasSuccessful = "True")
              /\ (wasSuccessful # "True" => exitCode = "1")
        /\ pc = "tests_returned" => (success = wasSuccessful /\ success # None)

C8_Witness ==
    script = "run_tests" /\ pc = "exited" /\ wasSuccessful = "False" /\ exitCode = "1"

\* The number of the keys of a results dict that are present and True.
TrueKeys(d, keys) == Cardinality({k \in keys : k \in DOMAIN d /\ d[k] = TRUE})

\* C9: overall_score is the number of true values among the nine checks, a
\* missing key counting as false, so it lies in 0..9 = max_score; the status is
\* EXCELLENT iff the score is 9, GOOD iff it is 8, FAIR iff it is 6 or 7 and
\* NEEDS WORK iff it is at most 5.
C9_FinalScore ==
    (script = "final_validation" /\ pc = "exited") =>
        LET score == final_report.overall_score
        IN  /\ score = TrueKeys(python_results,
                                {"imports", "services", "tests", "workflow_test"})
                       + TrueKeys(n8n_results,
                                  {"files_present", "json_valid", "node_types"})
                       + TrueKeys(doc_results, {"docs_complete"})
                       + TrueKeys(structure_results, {"structure_complete"})
            /\ score \in 0..9
            /\ final_report.max_score = 9
            /\ (final_report.status = "EXCELLENT" <=> score = 9)
            /\ (final_report.status = "GOOD" <=> score = 8)
            /\ (final_report.status = "FAIR" <=> score \in {6, 7})
            /\ (final_report.status = "NEEDS WORK" <=> score \in 0..5)

C9_Witness ==
    /\ script = "final_validation" /\ pc = "exited"
    /\ "node_types" \notin DOMAIN n8n_results
    /\ final_report.overall_score = 6
    /\ final_report.status = "FAIR"

====
